---- MODULE Spec2Model ----
(***************************************************************************)
(* Model of scripts/clean-exercise-database.py: the script loads a JSON    *)
(* document, deletes four category keys from exercise_database.categories, *)
(* recomputes exercise_database.total_exercises, writes the document back  *)
(* to the same path and prints a summary.                                  *)
(*                                                                         *)
(* JSON values are modelled as trees, Python dicts as insertion-ordered    *)
(* key/value sequences, and the file as a sequence of JSON tokens, so that *)
(* json.load and json.dump are a real parser and a real printer.           *)
(***************************************************************************)
EXTENDS Integers, Sequences, FiniteSets, TLC

VARIABLES fs, before, pc, err, data, original_categories, idx, total,
          events, returned, run

vars == <<fs, before, pc, err, data, original_categories, idx, total,
          events, returned, run>>

-----------------------------------------------------------------------------
(* Bounds of the model *)

\* most categories an input document holds
MaxCats == 4
\* longest exercises list of an input category
MaxEx == 2
\* how many times the script is run in a row on the same file
MaxRuns == 2
\* tokens the buffered output file hands to the disk at a time
FlushEvery == 6

-----------------------------------------------------------------------------
(* JSON values: t is the kind, s a string's text, n a number's value, kv   *)
(* the members of an object (in dict order) or the items of an array.      *)

KV(k, v) == [k |-> k, v |-> v]
Null == [t |-> "null", s |-> "", n |-> 0, kv |-> <<>>]
Num(n) == [t |-> "num", s |-> "", n |-> n, kv |-> <<>>]
Str(s) == [t |-> "str", s |-> s, n |-> 0, kv |-> <<>>]
Obj(kv) == [t |-> "obj", s |-> "", n |-> 0, kv |-> kv]
Arr(kv) == [t |-> "arr", s |-> "", n |-> 0, kv |-> kv]

\* `k in d` / d[k] succeeds: d is a dict holding k
HasKey(v, k) == v.t = "obj" /\ \E i \in 1..Len(v.kv) : v.kv[i].k = k

\* d[k]; Null where the lookup would raise
Get(v, k) ==
    IF HasKey(v, k)
    THEN v.kv[CHOOSE i \in 1..Len(v.kv) : v.kv[i].k = k].v
    ELSE Null

\* list(d.keys()): the keys in insertion order
Keys(v) == [i \in 1..Len(v.kv) |-> v.kv[i].k]

\* a deletion that fills the hole with the last member instead of closing it
DelKeySwap(v, k) ==
    LET i == CHOOSE j \in 1..Len(v.kv) : v.kv[j].k = k
        n == Len(v.kv)
    IN  [v EXCEPT !.kv = [j \in 1..(n - 1) |-> IF j = i THEN v.kv[n] ELSE v.kv[j]]]

\* del d[k]: the other members keep their order
DelKey(v, k) == [v EXCEPT !.kv = SelectSeq(@, LAMBDA e : e.k # k)]

\* d[k] = x: an existing key keeps its place, a new key goes last
SetKey(v, k, x) ==
    IF HasKey(v, k)
    THEN [v EXCEPT !.kv = [i \in 1..Len(@) |-> IF @[i].k = k THEN KV(k, x) ELSE @[i]]]
    ELSE [v EXCEPT !.kv = Append(@, KV(k, x))]

\* len(x) is defined for lists and dicts (strings never occur where the
\* script takes a length in the documents of this model)
LenOk(v) == v.t \in {"arr", "obj"}
PyLen(v) == Len(v.kv)

-----------------------------------------------------------------------------
(* The file's text: a sequence of JSON tokens.  A key token stands for the *)
(* quoted key with its colon; commas and indentation go with their token.  *)

Tok(k, s, n) == [k |-> k, s |-> s, n |-> n]

RECURSIVE Encode(_), EncodeItems(_, _)

\* json.dump(data, f, indent=2): the text of a value
Encode(v) ==
    CASE v.t = "num" -> << Tok("num", "", v.n) >>
      [] v.t = "str" -> << Tok("str", v.s, 0) >>
      [] v.t = "obj" -> << Tok("{", "", 0) >> \o EncodeItems(v.kv, TRUE) \o << Tok("}", "", 0) >>
      [] v.t = "arr" -> << Tok("[", "", 0) >> \o EncodeItems(v.kv, FALSE) \o << Tok("]", "", 0) >>
      [] OTHER -> << Tok("null", "", 0) >>

EncodeItems(kv, keyed) ==
    IF kv = <<>> THEN <<>>
    ELSE (IF keyed THEN << Tok("key", Head(kv).k, 0) >> ELSE <<>>)
             \o Encode(Head(kv).v) \o EncodeItems(Tail(kv), keyed)

ParseError == [ok |-> FALSE, v |-> Null, pos |-> 0]
Parsed(v, pos) == [ok |-> TRUE, v |-> v, pos |-> pos]

RECURSIVE Decode(_, _), DecodeMembers(_, _, _), DecodeElements(_, _, _)

\* the JSON decoder: the value that starts at token pos, and where it ends
Decode(text, pos) ==
    IF pos > Len(text) THEN ParseError
    ELSE LET tk == text[pos] IN
         CASE tk.k = "num" -> Parsed(Num(tk.n), pos + 1)
           [] tk.k = "str" -> Parsed(Str(tk.s), pos + 1)
           [] tk.k = "null" -> Parsed(Null, pos + 1)
           [] tk.k = "{" -> DecodeMembers(text, pos + 1, Obj(<<>>))
           [] tk.k = "[" -> DecodeElements(text, pos + 1, Arr(<<>>))
           [] OTHER -> ParseError

\* members of an object; a repeated key keeps its first place and last value
DecodeMembers(text, pos, acc) ==
    IF pos > Len(text) THEN ParseError
    ELSE IF text[pos].k = "}" THEN Parsed(acc, pos + 1)
    ELSE IF text[pos].k = "key"
         THEN LET r == Decode(text, pos + 1)
              IN  IF r.ok THEN DecodeMembers(text, r.pos, SetKey(acc, text[pos].s, r.v))
                  ELSE ParseError
         ELSE ParseError

DecodeElements(text, pos, acc) ==
    IF pos > Len(text) THEN ParseError
    ELSE IF text[pos].k = "]" THEN Parsed(acc, pos + 1)
    ELSE LET r == Decode(text, pos)
         IN  IF r.ok
             THEN DecodeElements(text, r.pos, [acc EXCEPT !.kv = Append(@, KV("", r.v))])
             ELSE ParseError

\* json.load(f): the whole text must be one value
json_load(text) ==
    LET r == Decode(text, 1)
    IN  IF r.ok /\ r.pos = Len(text) + 1 THEN r ELSE ParseError

-----------------------------------------------------------------------------
(* The script's constants *)

input_path == "src/data/exercise_database.json"
output_path == "src/data/exercise_database.json"
Paths == {input_path, output_path}

keep_categories == << "strength", "mobility", "flexibility", "cardio" >>

\* the removal list as an allowlist filter would make it: every category that
\* is not in keep_categories
remove_unless_kept == << "circuit", "yoga", "interval", "amrap", "emom" >>

\* the removal list with its last name forgotten
remove_three == << "interval", "emom", "amrap" >>

categories_to_remove == << "interval", "emom", "amrap", "circuit" >>

-----------------------------------------------------------------------------
(* Input files *)

\* category names of the input documents, in the order documents list them
NamePool == << "strength", "circuit", "yoga", "interval", "amrap", "emom" >>
PoolNames == {NamePool[i] : i \in 1..Len(NamePool)}

\* an exercises list of n opaque entries e1..en
Exercises(n) == Arr([i \in 1..n |-> KV("", Num(i))])

\* a category with n exercises; n = -1 is a category without an exercises entry
CategoryObj(n) ==
    IF n < 0 THEN Obj(<< KV("note", Str("n")) >>)
    ELSE Obj(<< KV("exercises", Exercises(n)), KV("note", Str("n")) >>)

Reverse(q) == [i \in 1..Len(q) |-> q[Len(q) + 1 - i]]

\* the exercise count of the i-th category of a document: the counts cycle
\* through 0..MaxEx from shift on, so that neighbours differ; the category
\* named bad has no exercises entry
CountAt(names, i, shift, bad) ==
    IF names[i] = bad THEN -1 ELSE (shift + i) % (MaxEx + 1)

RECURSIVE SumCounts(_, _, _, _)
SumCounts(names, i, shift, bad) ==
    IF i > Len(names) THEN 0
    ELSE (IF names[i] = bad THEN 0 ELSE CountAt(names, i, shift, bad))
            + SumCounts(names, i + 1, shift, bad)

\* the document with the categories S, listed in pool order or backwards,
\* and a total_exercises that is absent, right, or stale
Document(S, rev, shift, bad, tmode) ==
    LET picked == SelectSeq(NamePool, LAMBDA x : x \in S)
        names == IF rev THEN Reverse(picked) ELSE picked
        cats == Obj([i \in 1..Len(names) |->
                        KV(names[i], CategoryObj(CountAt(names, i, shift, bad)))])
        sum == SumCounts(names, 1, shift, bad)
        head == << KV("version", Str("v1")) >>
        tot == CASE tmode = "right" -> << KV("total_exercises", Num(sum)) >>
                 [] tmode = "stale" -> << KV("total_exercises", Num(sum + 1)) >>
                 [] OTHER -> <<>>
    IN  Obj(<< KV("meta", Str("m")),
               KV("exercise_database", Obj(head \o tot \o << KV("categories", cats) >>)) >>)

\* documents without the nesting the script expects
Malformed ==
    { Obj(<< KV("meta", Str("m")) >>),
      Obj(<< KV("exercise_database", Obj(<< KV("version", Str("v1")) >>)) >>),
      Obj(<< KV("exercise_database", Str("v1")) >>),
      Obj(<< KV("exercise_database",
                Obj(<< KV("categories", Arr(<< KV("", Str("circuit")) >>)) >>)) >>),
      Arr(<< KV("", Num(1)) >>) }

\* texts that are not one JSON value: empty, cut short, followed by more
Unparsable ==
    { <<>>,
      << Tok("{", "", 0), Tok("key", "exercise_database", 0), Tok("{", "", 0) >>,
      << Tok("{", "", 0), Tok("}", "", 0), Tok("}", "", 0) >> }

Missing == [exists |-> FALSE, text |-> <<>>]
File(text) == [exists |-> TRUE, text |-> text]

\* the file system the script starts in: input_path holds c
Holding(c) == fs = [p \in Paths |-> c]

\* the file the script finds at input_path: none, one that is not JSON, a
\* malformed document, or a document of at most MaxCats categories, at most
\* one of them without an exercises entry
InputFile ==
    \/ Holding(Missing)
    \/ \E t \in Unparsable : Holding(File(t))
    \/ \E d \in Malformed : Holding(File(Encode(d)))
    \/ \E S \in SUBSET PoolNames :
          /\ Cardinality(S) <= MaxCats
          /\ \E rev \in BOOLEAN, shift \in 0..MaxEx, bad \in S \cup {""},
                tmode \in {"absent", "right", "stale"} :
                  Holding(File(Encode(Document(S, rev, shift, bad, tmode))))

-----------------------------------------------------------------------------
(* Lines of standard output and file events, in the order they happen *)

Event(kind, cat, n, names) == [kind |-> kind, cat |-> cat, n |-> n, names |-> names]

\* print(f"Removing {category} category ({exercises_count} generic exercises)")
RemovingLine(category, exercises_count) == Event("removing", category, exercises_count, <<>>)

\* the summary block as printed with the original list taken after deletion
SummaryLinesAfter(orig, d, t) ==
    << Event("header", "", 0, <<>>),
       Event("original", "", 0, Keys(Get(Get(d, "exercise_database"), "categories"))),
       Event("remaining", "", 0, Keys(Get(Get(d, "exercise_database"), "categories"))),
       Event("total", "", t, <<>>) >>

\* the four prints of the summary block
SummaryLines(orig, d, t) ==
    << Event("header", "", 0, <<>>),
       Event("original", "", 0, orig),
       Event("remaining", "", 0, Keys(Get(Get(d, "exercise_database"), "categories"))),
       Event("total", "", t, <<>>) >>

SuccessLine == Event("success", "", 0, <<>>)
OpenEvent == Event("open_w", "", 0, <<>>)
WriteEvent == Event("write", "", 0, <<>>)

-----------------------------------------------------------------------------
(* Pieces of clean_exercise_database *)

\* data['exercise_database']['categories']
Cats(d) == Get(Get(d, "exercise_database"), "categories")

\* data['exercise_database']['categories'] can be looked up and has .keys()
CatsOk(d) ==
    /\ HasKey(d, "exercise_database")
    /\ HasKey(Get(d, "exercise_database"), "categories")
    /\ Cats(d).t = "obj"

\* the document with its categories mapping replaced (the mapping is mutated in place)
WithCats(d, cats) ==
    SetKey(d, "exercise_database", SetKey(Get(d, "exercise_database"), "categories", cats))

\* a lookup of the exercises that falls back to an empty list
CountableLenient(cat) == TRUE

\* len(cat['exercises']) does not raise
Countable(cat) == HasKey(cat, "exercises") /\ LenOk(Get(cat, "exercises"))

\* the length of the category itself
category_len(cat) == PyLen(cat)

\* len(data['exercise_database']['categories'][category]['exercises'])
exercises_count(cat) == PyLen(Get(cat, "exercises"))

RECURSIVE SumExercises(_)
SumExercises(kv) ==
    IF kv = <<>> THEN 0 ELSE exercises_count(Head(kv).v) + SumExercises(Tail(kv))

\* a total that starts from the stored count
AccumulateTotal(d) ==
    Get(Get(d, "exercise_database"), "total_exercises").n + SumExercises(Cats(d).kv)

\* total = 0; for ... in categories.items(): total += len(cat_data['exercises'])
ComputeTotal(d) == SumExercises(Cats(d).kv)

\* a store that keeps a count the document already carries
StoreTotalIfAbsent(d, t) ==
    IF HasKey(Get(d, "exercise_database"), "total_exercises") THEN d
    ELSE SetKey(d, "exercise_database",
                SetKey(Get(d, "exercise_database"), "total_exercises", Num(t)))

\* data['exercise_database']['total_exercises'] = total
StoreTotal(d, t) ==
    SetKey(d, "exercise_database",
           SetKey(Get(d, "exercise_database"), "total_exercises", Num(t)))

\* a write through a temporary file: a failed write leaves the old content
FailedWriteAtomic(old, text, k) == old

\* the file after a write that failed with k blocks flushed
FailedWrite(old, text, k) ==
    File(SubSeq(text, 1, IF k * FlushEvery < Len(text) THEN k * FlushEvery ELSE Len(text)))

\* how many blocks a failed write of text can have flushed: none (the file was
\* truncated by open) up to all of them (the failure came at close)
FlushedBlocks(text) == 0..((Len(text) + FlushEvery - 1) \div FlushEvery)

-----------------------------------------------------------------------------
(* State *)

Init ==
    /\ InputFile
    /\ before = fs
    /\ pc = "start"
    /\ err = ""
    /\ data = Null
    /\ original_categories = <<>>
    /\ idx = 1
    /\ total = 0
    /\ events = <<>>
    /\ returned = Null
    /\ run = 1

Fail(e) ==
    /\ pc' = "failed"
    /\ err' = e

\* lines 15-16: open(input_file, 'r') and json.load
LoadInput ==
    /\ pc = "start"
    /\ \/ /\ ~fs[input_path].exists
          /\ Fail("FileNotFoundError")
          /\ data' = data
       \/ /\ fs[input_path].exists
          /\ ~json_load(fs[input_path].text).ok
          /\ Fail("JSONDecodeError")
          /\ data' = data
       \/ /\ fs[input_path].exists
          /\ json_load(fs[input_path].text).ok
          /\ data' = json_load(fs[input_path].text).v
          /\ pc' = "original"
          /\ err' = err
    /\ UNCHANGED <<fs, before, original_categories, idx, total, events, returned, run>>

\* line 24: original_categories = list(data[...][...].keys())
RecordOriginal ==
    /\ pc = "original"
    /\ IF CatsOk(data)
       THEN /\ original_categories' = Keys(Cats(data))
            /\ pc' = "remove"
            /\ err' = err
       ELSE Fail("LookupError") /\ original_categories' = original_categories
    /\ UNCHANGED <<fs, before, data, idx, total, events, returned, run>>

\* lines 26-30: one iteration of the loop over categories_to_remove
RemoveStep ==
    /\ pc = "remove"
    /\ LET category == categories_to_remove[idx]
           cat == Get(Cats(data), category)
       IN  IF HasKey(Cats(data), category) /\ ~Countable(cat)
           THEN Fail("LookupError") /\ UNCHANGED <<data, events, idx>>
           ELSE /\ IF HasKey(Cats(data), category)
                   THEN /\ events' = Append(events, RemovingLine(category, exercises_count(cat)))
                        /\ data' = WithCats(data, DelKey(Cats(data), category))
                   ELSE UNCHANGED <<data, events>>
                /\ idx' = idx + 1
                /\ pc' = IF idx = Len(categories_to_remove) THEN "total" ELSE "remove"
                /\ err' = err
    /\ UNCHANGED <<fs, before, original_categories, total, returned, run>>

\* lines 33-37: recompute and store total_exercises
UpdateTotal ==
    /\ pc = "total"
    /\ IF \A i \in 1..Len(Cats(data).kv) : Countable(Cats(data).kv[i].v)
       THEN /\ total' = ComputeTotal(data)
            /\ data' = StoreTotal(data, ComputeTotal(data))
            /\ pc' = "open_output"
            /\ err' = err
       ELSE Fail("LookupError") /\ UNCHANGED <<data, total>>
    /\ UNCHANGED <<fs, before, original_categories, idx, events, returned, run>>

\* line 40: open(output_file, 'w') truncates the file, or fails and leaves it
OpenOutput ==
    /\ pc = "open_output"
    /\ events' = Append(events, OpenEvent)
    /\ \/ /\ fs' = [fs EXCEPT ![output_path] = File(<<>>)]
          /\ pc' = "dump"
          /\ err' = err
       \/ /\ Fail("OpenError")
          /\ fs' = fs
    /\ UNCHANGED <<before, data, original_categories, idx, total, returned, run>>

\* line 41: json.dump writes the whole text, or fails partway
Dump ==
    /\ pc = "dump"
    /\ LET text == Encode(data)
       IN  \/ /\ fs' = [fs EXCEPT ![output_path] = File(text)]
              /\ events' = Append(events, WriteEvent)
              /\ pc' = "summary"
              /\ err' = err
           \/ \E k \in FlushedBlocks(text) :
                /\ fs' = [fs EXCEPT ![output_path] = FailedWrite(before[output_path], text, k)]
                /\ events' = events
                /\ Fail("WriteError")
    /\ UNCHANGED <<before, data, original_categories, idx, total, returned, run>>

\* lines 43-48: the summary block and the return
Summary ==
    /\ pc = "summary"
    /\ events' = events \o SummaryLines(original_categories, data, total)
    /\ returned' = data
    /\ pc' = "returned"
    /\ UNCHANGED <<fs, before, err, data, original_categories, idx, total, run>>

\* line 55: the success line of the entry point
MainSuccess ==
    /\ pc = "returned"
    /\ events' = Append(events, SuccessLine)
    /\ pc' = "done"
    /\ UNCHANGED <<fs, before, err, data, original_categories, idx, total, returned, run>>

\* the script is run again on the file it left
Rerun ==
    /\ pc = "done"
    /\ run < MaxRuns
    /\ run' = run + 1
    /\ before' = fs
    /\ pc' = "start"
    /\ err' = ""
    /\ data' = Null
    /\ original_categories' = <<>>
    /\ idx' = 1
    /\ total' = 0
    /\ events' = <<>>
    /\ returned' = Null
    /\ UNCHANGED fs

Next ==
    \/ LoadInput
    \/ RecordOriginal
    \/ RemoveStep
    \/ UpdateTotal
    \/ OpenOutput
    \/ Dump
    \/ Summary
    \/ MainSuccess
    \/ Rerun

Spec == Init /\ [][Next]_vars

-----------------------------------------------------------------------------
(* Vocabulary of the properties *)

RemovalNames == {"interval", "emom", "amrap", "circuit"}

\* the document the run read, and the document now in the output file
InputDoc == json_load(before[input_path].text).v
WrittenDoc == json_load(fs[output_path].text).v

Db(d) == Get(d, "exercise_database")

\* clean_exercise_database has returned
Completed == pc \in {"returned", "done"}
Terminated == pc \in {"done", "failed"}

EventsOf(kinds) == SelectSeq(events, LAMBDA e : e.kind \in kinds)
RemovalLines == EventsOf({"removing"})
SummaryKinds == {"header", "original", "remaining", "total"}

\* a category with an exercises entry that has a length
HasExercises(cat) ==
    /\ cat.t = "obj"
    /\ \E i \in 1..Len(cat.kv) :
          cat.kv[i].k = "exercises" /\ cat.kv[i].v.t \in {"arr", "obj"}

InputHas(c) == HasKey(Cats(InputDoc), c)
NoRemovalInInput == \A c \in RemovalNames : ~InputHas(c)

-----------------------------------------------------------------------------
\* C1: whenever clean_exercise_database completes, the categories mapping of
\* the returned document and of the written document holds none of interval,
\* emom, amrap, circuit.
C1_NoRemovalKeyLeft ==
    Completed =>
        \A c \in RemovalNames :
            ~HasKey(Cats(returned), c) /\ ~HasKey(Cats(WrittenDoc), c)

\* a completed run whose input held all four removal categories
C1_Witness == pc = "done" /\ \A c \in RemovalNames : InputHas(c)

\* C2: whenever the function completes, every input category whose name is
\* outside the removal set is still present with the same exercises sequence,
\* whether or not its name is in keep_categories.
C2_OthersKept ==
    Completed =>
        LET ic == Cats(InputDoc)
            wc == Cats(WrittenDoc)
        IN  \A i \in 1..Len(ic.kv) :
                LET e == ic.kv[i]
                IN  e.k \notin RemovalNames =>
                        /\ HasKey(Cats(returned), e.k)
                        /\ HasKey(wc, e.k)
                        /\ Get(Get(Cats(returned), e.k), "exercises") = Get(e.v, "exercises")
                        /\ Get(Get(wc, e.k), "exercises") = Get(e.v, "exercises")

\* a completed run that removed circuit and kept yoga, which keep_categories
\* does not list, with its one exercise
C2_Witness ==
    /\ pc = "done"
    /\ InputHas("circuit")
    /\ InputHas("yoga")
    /\ PyLen(Get(Get(Cats(returned), "yoga"), "exercises")) = 1

\* C3: in every output document total_exercises is exactly the sum of
\* len(exercises) over the remaining categories, whatever the input carried.
C3_TotalRecomputed ==
    Completed =>
        /\ Get(Db(returned), "total_exercises") = Num(SumExercises(Cats(returned).kv))
        /\ Get(Db(WrittenDoc), "total_exercises") = Num(SumExercises(Cats(WrittenDoc).kv))

\* a completed run whose input carried a total that differs from the sum of
\* what remains (stale, or counting a removed category)
C3_Witness ==
    /\ pc = "done"
    /\ HasKey(Db(InputDoc), "total_exercises")
    /\ Get(Db(InputDoc), "total_exercises") # Get(Db(returned), "total_exercises")

\* C4: a second run, on the file the first run wrote, leaves the file and the
\* returned document identical to what the first run produced, and removes
\* nothing.
C4_Idempotent ==
    (run >= 2 /\ Completed) =>
        /\ fs = before
        /\ returned = InputDoc
        /\ RemovalLines = <<>>

\* a second run that completed on a document with exercises left
C4_Witness == run = 2 /\ pc = "done" /\ total > 0

\* C5 as stated: with no removal category in the input, the categories are
\* unchanged, total_exercises has its input value, and no removal line is
\* printed.
C5_ScenarioB_AsStated ==
    (Completed /\ NoRemovalInInput) =>
        /\ Cats(returned) = Cats(InputDoc)
        /\ Get(Db(returned), "total_exercises") = Get(Db(InputDoc), "total_exercises")
        /\ RemovalLines = <<>>

\* C5 amended: with no removal category in the input, the categories are
\* unchanged, no removal line is printed, and total_exercises is the sum of
\* the exercise counts; it has its input value exactly when the input value
\* was already that sum, and then the whole document is unchanged.
C5_ScenarioB ==
    (Completed /\ NoRemovalInInput) =>
        /\ Cats(returned) = Cats(InputDoc)
        /\ RemovalLines = <<>>
        /\ Get(Db(returned), "total_exercises") = Num(SumExercises(Cats(InputDoc).kv))
        /\ (Get(Db(InputDoc), "total_exercises") = Num(SumExercises(Cats(InputDoc).kv))
               <=> returned = InputDoc)

\* a completed run on an input without removal categories but with exercises
C5_Witness ==
    /\ pc = "done"
    /\ NoRemovalInInput
    /\ InputHas("strength")
    /\ total > 0

\* every removal category of the input categories ic has an exercises entry
AllCountable(ic) ==
    \A c \in RemovalNames : HasKey(ic, c) => HasExercises(Get(ic, c))

RemovalCountable == AllCountable(Cats(InputDoc))

LinesFor(c) == SelectSeq(events, LAMBDA e : e.kind = "removing" /\ e.cat = c)

\* one line for c, reporting what c held in the input categories ic
LoggedOnce(ic, c) ==
    LinesFor(c) = << RemovingLine(c, PyLen(Get(Get(ic, c), "exercises"))) >>

\* a line for each removal name in ic, and for no other
LinePerKey(ic) ==
    \A c \in RemovalNames :
        IF HasKey(ic, c) THEN LoggedOnce(ic, c) ELSE LinesFor(c) = <<>>

\* the removal names the loop gets through: those up to the first one that
\* ic holds without an exercises entry
RECURSIVE Processed(_, _)
Processed(ic, names) ==
    IF names = <<>> THEN {}
    ELSE IF HasKey(ic, Head(names)) /\ ~HasExercises(Get(ic, Head(names)))
         THEN {}
         ELSE {Head(names)} \cup Processed(ic, Tail(names))

\* C6 as stated: at the end of every run, each removal name has exactly one
\* removal line, with the category's exercise count, if and only if it is a
\* key of the input categories, and no line otherwise.
C6_LinePerKey_AsStated ==
    Terminated => LinePerKey(Cats(InputDoc))

\* C6 amended: the same, in every run in which each removal category of the
\* input has an exercises entry (once the loop has ended); in the other runs
\* the names before the first removal category without an exercises entry
\* are logged so, and that category and the names after it get no line.
C6_LinePerKey ==
    LET d == InputDoc
        ic == Cats(d)
        done == Processed(ic, << "interval", "emom", "amrap", "circuit" >>)
    IN  /\ (pc \notin {"start", "original", "remove"} /\ CatsOk(d) /\ AllCountable(ic)) =>
              LinePerKey(ic)
        /\ (Terminated /\ CatsOk(d)) =>
              \A c \in RemovalNames :
                  IF HasKey(ic, c) /\ c \in done
                  THEN LoggedOnce(ic, c)
                  ELSE LinesFor(c) = <<>>
        /\ ~CatsOk(d) => RemovalLines = <<>>

\* a completed run on an input without amrap: the names around it are logged
C6_Witness ==
    /\ pc = "done"
    /\ ~InputHas("amrap")
    /\ InputHas("emom")
    /\ InputHas("circuit")
    /\ LoggedOnce(Cats(InputDoc), "circuit")
    /\ PyLen(Get(Get(Cats(InputDoc), "circuit"), "exercises")) = 1

Rank(kind) ==
    CASE kind = "removing" -> 1
      [] kind = "open_w" -> 2
      [] kind = "write" -> 3
      [] kind = "header" -> 4
      [] kind = "original" -> 5
      [] kind = "remaining" -> 6
      [] kind = "total" -> 7
      [] OTHER -> 8

\* C7: the events of a run come in the order removal lines, write of the
\* output file, summary block, success line, and a completed run has them
\* all; the summary lists the keys before any deletion, the keys after it
\* and the stored total; a run that failed printed no summary or success line.
C7_EventOrder ==
    /\ \A i, j \in 1..Len(events) :
          i < j => /\ Rank(events[i].kind) <= Rank(events[j].kind)
                   /\ events[j].kind # "removing" => events[i].kind # events[j].kind
    /\ pc = "done" =>
          /\ SelectSeq(events, LAMBDA e : e.kind # "removing")
               = << OpenEvent, WriteEvent,
                    Event("header", "", 0, <<>>),
                    Event("original", "", 0, Keys(Cats(InputDoc))),
                    Event("remaining", "", 0, Keys(Cats(WrittenDoc))),
                    Event("total", "", Get(Db(WrittenDoc), "total_exercises").n, <<>>),
                    SuccessLine >>
    /\ pc = "failed" => EventsOf(SummaryKinds \cup {"success", "write"}) = <<>>

\* a completed run that printed two removal lines or more
C7_Witness == pc = "done" /\ Len(RemovalLines) >= 2

IsPrefix(a, b) == Len(a) <= Len(b) /\ SubSeq(b, 1, Len(a)) = a

\* what holds of the file in a state a failed write has left
FailedWriteState ==
    (pc = "failed" /\ err = "WriteError") =>
        /\ fs[output_path].exists
        /\ IsPrefix(fs[output_path].text, Encode(data))
        /\ fs[output_path].text # Encode(data) =>
              /\ fs[output_path] # before[input_path]
              /\ ~json_load(fs[output_path].text).ok

\* C8: a run whose write failed leaves a file that holds a prefix of the
\* cleaned text: unless the whole text got out, the file is neither the
\* original nor the cleaned document, nor any JSON document; and the run
\* takes no further step, so nothing restores the file.
C8_FailedWriteCorrupts ==
    /\ []FailedWriteState
    /\ [][~(pc = "failed" /\ err = "WriteError")]_vars

\* a failed run that left part of the cleaned text in the file
C8_Witness ==
    /\ pc = "failed"
    /\ err = "WriteError"
    /\ fs[output_path].text # <<>>
    /\ fs[output_path] # before[input_path]
    /\ fs[output_path].text # Encode(data)

\* the input cannot get through: no file, no JSON, no categories mapping, or
\* a category without an exercises entry
DefectiveInput ==
    LET r == json_load(before[input_path].text)
        ic == Cats(r.v)
    IN  \/ ~before[input_path].exists
        \/ ~r.ok
        \/ ~CatsOk(r.v)
        \/ \E i \in 1..Len(ic.kv) : ~HasExercises(ic.kv[i].v)

EarlyErrors == {"FileNotFoundError", "JSONDecodeError", "LookupError"}

\* what holds of a run on a defective input, and of a run that failed early
EarlyFailureState ==
    /\ DefectiveInput =>
          /\ pc \in {"start", "original", "remove", "total", "failed"}
          /\ EventsOf({"open_w", "write"}) = <<>>
          /\ fs = before
    /\ (pc = "failed" /\ err \in EarlyErrors) =>
          /\ DefectiveInput
          /\ fs = before
          /\ EventsOf({"open_w", "write", "success"} \cup SummaryKinds) = <<>>
          /\ returned = Null

\* C9: a run on a defective input (no file, no JSON, no categories nesting,
\* a category without exercises) never opens the output file and never
\* completes; a run that failed before the write step has left the file as
\* it was, printed no summary and returned nothing, and takes no further step.
C9_EarlyFailure ==
    /\ []EarlyFailureState
    /\ [][~(pc = "failed" /\ err \in EarlyErrors)]_vars

\* a run that printed a removal line and then failed on a category that
\* remains but has no exercises entry
C9_Witness ==
    /\ pc = "failed"
    /\ err = "LookupError"
    /\ RemovalLines # <<>>
    /\ RemovalCountable

OtherMembers(v, ks) == SelectSeq(v.kv, LAMBDA e : e.k \notin ks)

\* C10: the returned document differs from the input only by the deleted
\* removal keys and total_exercises: the other top-level fields, the other
\* fields of exercise_database and the remaining categories, whole and in
\* their order, are the input's; and it is the document in the output file.
C10_NothingElseChanged ==
    Completed =>
        LET d == InputDoc
        IN  /\ Keys(returned) = Keys(d)
            /\ OtherMembers(returned, {"exercise_database"})
                 = OtherMembers(d, {"exercise_database"})
            /\ OtherMembers(Db(returned), {"categories", "total_exercises"})
                 = OtherMembers(Db(d), {"categories", "total_exercises"})
            /\ Keys(Db(returned)) =
                 IF HasKey(Db(d), "total_exercises") THEN Keys(Db(d))
                 ELSE Append(Keys(Db(d)), "total_exercises")
            /\ Cats(returned).kv = OtherMembers(Cats(d), RemovalNames)
            /\ fs[output_path] = File(Encode(returned))
            /\ WrittenDoc = returned

\* a completed run that deleted circuit from between strength and yoga
C10_Witness ==
    /\ pc = "done"
    /\ InputHas("strength")
    /\ InputHas("circuit")
    /\ InputHas("yoga")
    /\ Keys(Cats(returned)) = << "strength", "yoga" >>

====
